---- MODULE Spec2Model ----
(***************************************************************************)
(* Range256Chip of the nexus-zkvm prover                                   *)
(* (prover/src/chips/range_check/range256.rs): the wait-then-sweep         *)
(* multiplicity count of fill_main_trace, the logup interaction columns of *)
(* fill_interaction_trace and the relation entries of add_constraints,     *)
(* driven by a chip-composition loop like the one of the chip's tests.     *)
(*                                                                         *)
(* Rows, limbs, lanes and vector rows are indexed from 0 as in the source; *)
(* the column lists are sequences (indexed from 1) in the source's order.  *)
(***************************************************************************)
EXTENDS Integers, Sequences, FiniteSets

\* ------------------------------------------------------------ constants

\* nexus_vm::WORD_SIZE: limbs of a word column.
WORD_SIZE == 4

\* stwo SIMD backend: one packed value holds 2^LOG_N_LANES = 16 rows.
LOG_N_LANES == 4

\* The bound of the assertion in fill_main_cols.
RANGE_BOUND == 256

\* Length of side_note.range256.multiplicity.
MULTIPLICITY_LEN == 256

\* Modulus of the base field M31 (2^31 - 1).
M31_P == 2147483647

CHECKED_WORDS ==
    << "Pc", "PcNextAux", "InstrVal", "PrevCtr", "ValueA", "ValueB", "ValueC",
       "Reg1TsPrev", "Reg2TsPrev", "Reg3TsPrev", "Helper1", "ProgCtrCur",
       "ProgCtrPrev", "FinalPrgMemoryCtr", "CReg1TsPrev", "CReg2TsPrev",
       "CReg3TsPrev", "RamBaseAddr", "Ram1TsPrev", "Ram2TsPrev", "Ram3TsPrev",
       "Ram4TsPrev", "Ram1TsPrevAux", "Ram2TsPrevAux", "Ram3TsPrevAux",
       "Ram4TsPrevAux", "Rem", "Qt", "RemDiff", "RamInitFinalAddr",
       "RamFinalCounter" >>

CHECKED_BYTES ==
    << "Ram1ValCur", "Ram2ValCur", "Ram3ValCur", "Ram4ValCur", "Ram1ValPrev",
       "Ram2ValPrev", "Ram3ValPrev", "Ram4ValPrev", "RamFinalValue" >>

TYPE_U_CHECKED_BYTES == << "OpC16_23", "OpC24_31" >>

\* The trace column the type-U predicate is computed from.
TypeUSource == "IsTypeU"

\* ------------------------------------------------------------ bounds

\* log2 of the number of trace rows (TracesBuilder::new(LOG_SIZE)): two packs
\* of 2^LOG_N_LANES rows.
LogSize == 5

\* Cells written by the other chips of the composition in one run.
MaxWrites == 2

\* Calls of fill_main_trace that depart from the ascending order, per run.
MaxStray == 1

RECURSIVE Pow2(_)
Pow2(n) == IF n = 0 THEN 1 ELSE 2 * Pow2(n - 1)

NumRows == Pow2(LogSize)
N_LANES == Pow2(LOG_N_LANES)

Range(s) == { s[i] : i \in DOMAIN s }

WordColumns == Range(CHECKED_WORDS)
ByteColumns == Range(CHECKED_BYTES) \cup Range(TYPE_U_CHECKED_BYTES) \cup { TypeUSource }
Columns == WordColumns \cup ByteColumns

\* Column::size(): the number of limbs of a column.
ColumnSize(col) == IF col \in WordColumns THEN WORD_SIZE ELSE 1

\* ------------------------------------------------------------ state

VARIABLES
    cfg_test,         \* TRUE in a cfg(test) build, FALSE in any other build
    traces,           \* TracesBuilder: traces[row][col][limb], a field element
    multiplicity,     \* side_note.range256.multiplicity
    calls,            \* the row_idx arguments fill_main_trace was called with, in order
    sweeps,           \* how many times the loop over all rows was entered
    writes,           \* the cells the other chips wrote: [at, row, col, limb, val]
    panic,            \* [kind, row, col, limb]: where the run panicked, kind "none" if not;
                      \* for a failed lookup in the registry, col names the operation
    pc,               \* "filling", "finalized", "drawn", "interaction", "constraints", "panicked"
    original_traces,  \* FinalizedTraces: original_traces[col][limb][vec_row][lane]
    all_elements,     \* AllLookupElements: relation name -> challenge drawn for it
    channel,          \* number of challenges drawn from the channel
    logup_trace_gen,  \* LogupTraceGenerator: the finalized interaction columns
    eval              \* the relation entries registered by add_constraints

vars == << cfg_test, traces, multiplicity, calls, sweeps, writes, panic, pc,
           original_traces, all_elements, channel, logup_trace_gen, eval >>

NoPanic == [kind |-> "none", row |-> -1, col |-> "", limb |-> -1]

\* side_note.range256.multiplicity of a fresh SideNote.
ZeroTable == [v \in 0 .. MULTIPLICITY_LEN - 1 |-> 0]

\* TracesBuilder::new(log_size): every column zero-filled.
NewTraces ==
    [row \in 0 .. NumRows - 1 |->
        [col \in Columns |-> [limb \in 0 .. ColumnSize(col) - 1 |-> 0]]]

\* TracesBuilder::num_rows().
num_rows(t) == Cardinality(DOMAIN t)

\* TracesBuilder::column::<N>(row, col).
column(t, row, col) == t[row][col]

\* virtual_column::IsTypeU::read_from_traces_builder(traces, row_idx).
IsTypeU_read_from_traces_builder(t, row) == << t[row][TypeUSource][0] >>

\* ------------------------------------------------------------ fill_main_trace

\* fill_main_cols with the assertion compiled out of every build.
RECURSIVE fill_main_cols_from_Unasserted(_, _, _, _)
fill_main_cols_from_Unasserted(value_col, n, i, s) ==
    IF i >= n \/ s.kind # "none" THEN s
    ELSE LET checked == value_col[i] IN
         IF ~(checked < MULTIPLICITY_LEN)
         THEN [s EXCEPT !.kind = "index_out_of_bounds", !.limb = i]
         ELSE fill_main_cols_from_Unasserted(value_col, n, i + 1,
                  [s EXCEPT !.multiplicity[checked] = @ + 1])

\* fill_main_cols with the assertion off by one: checked <= 256.
RECURSIVE fill_main_cols_from_OffByOne(_, _, _, _)
fill_main_cols_from_OffByOne(value_col, n, i, s) ==
    IF i >= n \/ s.kind # "none" THEN s
    ELSE LET checked == value_col[i] IN
         IF ~cfg_test /\ ~(checked <= RANGE_BOUND)
         THEN [s EXCEPT !.kind = "assert", !.limb = i]
         ELSE IF ~(checked < MULTIPLICITY_LEN)
         THEN [s EXCEPT !.kind = "index_out_of_bounds", !.limb = i]
         ELSE fill_main_cols_from_OffByOne(value_col, n, i + 1,
                  [s EXCEPT !.multiplicity[checked] = @ + 1])

\* The body of the loop of fill_main_cols from limb i on. s is
\* [multiplicity, kind, limb]: the table and the panic met, if any.
RECURSIVE fill_main_cols_from(_, _, _, _)
fill_main_cols_from(value_col, n, i, s) ==
    IF i >= n \/ s.kind # "none" THEN s
    ELSE LET checked == value_col[i] IN
         IF ~cfg_test /\ ~(checked < RANGE_BOUND)
         THEN [s EXCEPT !.kind = "assert", !.limb = i]
         ELSE IF ~(checked < MULTIPLICITY_LEN)
         THEN [s EXCEPT !.kind = "index_out_of_bounds", !.limb = i]
         ELSE fill_main_cols_from(value_col, n, i + 1,
                  [s EXCEPT !.multiplicity[checked] = @ + 1])

fill_main_cols(value_col, n, s) == fill_main_cols_from(value_col, n, 0, s)

\* One column of one row: s is [multiplicity, panic].
FillColumn(t, row, col, s) ==
    LET r == fill_main_cols(column(t, row, col), ColumnSize(col),
                 [multiplicity |-> s.multiplicity, kind |-> "none", limb |-> -1])
    IN  [multiplicity |-> r.multiplicity,
         panic |-> IF r.kind = "none" THEN NoPanic
                   ELSE [kind |-> r.kind, row |-> row, col |-> col, limb |-> r.limb]]

\* for col in cols.iter() { fill_main_cols(traces.column(row_idx, *col), side_note) }
RECURSIVE FillColumns(_, _, _, _, _)
FillColumns(t, row, cols, i, s) ==
    IF i > Len(cols) \/ s.panic.kind # "none" THEN s
    ELSE FillColumns(t, row, cols, i + 1, FillColumn(t, row, cols[i], s))

\* SweepRow with the test of the predicate forgotten.
SweepRow_Unconditional(t, row, s) ==
    LET s1 == FillColumns(t, row, CHECKED_WORDS, 1, s)
        s2 == FillColumns(t, row, CHECKED_BYTES, 1, s1)
    IN  IF s2.panic.kind # "none" THEN s2
        ELSE FillColumns(t, row, TYPE_U_CHECKED_BYTES, 1, s2)

\* SweepRow with the test of the predicate inverted.
SweepRow_Inverted(t, row, s) ==
    LET s1 == FillColumns(t, row, CHECKED_WORDS, 1, s)
        s2 == FillColumns(t, row, CHECKED_BYTES, 1, s1)
        type_u == IsTypeU_read_from_traces_builder(t, row)[1]
    IN  IF s2.panic.kind # "none" THEN s2
        ELSE IF type_u = 0 THEN FillColumns(t, row, TYPE_U_CHECKED_BYTES, 1, s2)
        ELSE s2

\* The body of the loop over the rows.
SweepRow(t, row, s) ==
    LET s1 == FillColumns(t, row, CHECKED_WORDS, 1, s)
        s2 == FillColumns(t, row, CHECKED_BYTES, 1, s1)
        type_u == IsTypeU_read_from_traces_builder(t, row)[1]
    IN  IF s2.panic.kind # "none" THEN s2
        ELSE IF type_u # 0 THEN FillColumns(t, row, TYPE_U_CHECKED_BYTES, 1, s2)
        ELSE s2

\* The loop over the rows stopping one row early.
RECURSIVE SweepRows_SkipLastRow(_, _, _)
SweepRows_SkipLastRow(t, row, s) ==
    IF row >= num_rows(t) - 1 \/ s.panic.kind # "none" THEN s
    ELSE SweepRows_SkipLastRow(t, row + 1, SweepRow(t, row, s))

\* for row_idx in 0..traces.num_rows() { ... }
RECURSIVE SweepRows(_, _, _)
SweepRows(t, row, s) ==
    IF row >= num_rows(t) \/ s.panic.kind # "none" THEN s
    ELSE SweepRows(t, row + 1, SweepRow(t, row, s))

\* The early return taken on every row but the first: the sweep is not deferred.
Waits_NotDeferred(t, row_idx) == row_idx > 0

\* The early return taken on every row_idx but num_rows - 1.
Waits_UnlessLastRow(t, row_idx) == row_idx + 1 # num_rows(t)

\* The early return taken one row short.
Waits_OneRowShort(t, row_idx) == row_idx + 2 < num_rows(t)

\* The early return of fill_main_trace.
Waits(t, row_idx) == row_idx + 1 < num_rows(t)

\* Range256Chip::fill_main_trace(traces, row_idx, _step, side_note).
fill_main_trace(t, row_idx, mult) ==
    IF Waits(t, row_idx)
    THEN [multiplicity |-> mult, panic |-> NoPanic]
    ELSE SweepRows(t, 0, [multiplicity |-> mult, panic |-> NoPanic])

\* ------------------------------------------------------------ the composition driver

\* The calls made so far are exactly 0, 1, 2, ... in this order.
Ascending(cs) == Len(cs) <= NumRows /\ \A i \in 1 .. Len(cs) : cs[i] = i - 1

\* The number of calls made from the first departure from that order on.
RECURSIVE AscendingPrefix(_, _)
AscendingPrefix(cs, k) ==
    IF k < Len(cs) /\ k < NumRows /\ cs[k + 1] = k THEN AscendingPrefix(cs, k + 1) ELSE k

Strays(cs) == Len(cs) - AscendingPrefix(cs, 0)

\* The row during whose filling the other chips are followed writing checked
\* cells (the last but one), and the rows they reach from there: the row above,
\* the row itself and the row below.
BusyRows == { NumRows - 2 }
Window(row) == { row - 1, row, row + 1 } \cap (0 .. NumRows - 1)

\* What the other chips write, as << column, limb, value >>: a limb of a word
\* past the byte range (the ValueB of the failing test), the largest byte, a
\* conditionally checked byte past the byte range, and the flag that makes a
\* row type U.
WriteChoices ==
    { << "ValueB", 1, 256 >>, << "RamFinalValue", 0, 255 >>,
      << "OpC16_23", 0, 256 >>, << TypeUSource, 0, 1 >> }

\* The row_idx arguments of the calls that depart from the ascending order,
\* and the places of the ascending pass where such a call is followed.
StrayArgs == { 0, NumRows - 2, NumRows - 1, NumRows }
StrayAt == { 0 }

Init ==
    /\ cfg_test \in BOOLEAN
    /\ traces = NewTraces
    /\ multiplicity = [v \in 0 .. MULTIPLICITY_LEN - 1 |-> 0]
    /\ calls = << >>
    /\ sweeps = 0
    /\ writes = { }
    /\ panic = NoPanic
    /\ pc = "filling"
    /\ original_traces = [log_size |-> 0, cols |-> << >>]
    /\ all_elements = << >>
    /\ channel = 0
    /\ logup_trace_gen = << >>
    /\ eval = << >>

\* Another chip of the composition fills a checked cell
\* (traces.fill_columns_bytes / fill_columns_base_field), while the row
\* Len(calls) is being filled and before Range256Chip is called for it.
OtherChipWrite(row, col, limb, val) ==
    /\ pc = "filling"
    /\ Ascending(calls)
    /\ Len(calls) \in BusyRows
    /\ row \in Window(Len(calls))
    /\ Cardinality(writes) < MaxWrites
    /\ traces' = [traces EXCEPT ![row][col][limb] = val]
    /\ writes' = writes \cup
           { [at |-> Len(calls), row |-> row, col |-> col, limb |-> limb, val |-> val] }
    /\ UNCHANGED << cfg_test, multiplicity, calls, sweeps, panic, pc,
                    original_traces, all_elements, channel, logup_trace_gen, eval >>

\* One call Range256Chip::fill_main_trace(&mut traces, row_idx, .., &mut side_note).
CallFillMainTrace(row_idx) ==
    \E r \in { fill_main_trace(traces, row_idx, multiplicity) } :
        /\ multiplicity' = r.multiplicity
        /\ panic' = r.panic
        /\ pc' = IF r.panic.kind # "none" THEN "panicked" ELSE pc
        /\ calls' = Append(calls, row_idx)
        /\ sweeps' = IF Waits(traces, row_idx) THEN sweeps ELSE sweeps + 1
        /\ UNCHANGED << cfg_test, traces, writes, original_traces, all_elements,
                        channel, logup_trace_gen, eval >>

\* The composition loop: for row_idx in 0..traces.num_rows() { ...; fill_main_trace }.
DriverFill ==
    /\ pc = "filling"
    /\ Ascending(calls)
    /\ Len(calls) < NumRows
    /\ CallFillMainTrace(Len(calls))

\* A call that is not the next one of the ascending sequence.
StrayFill(row_idx) ==
    /\ pc = "filling"
    /\ AscendingPrefix(calls, 0) \in StrayAt
    /\ Strays(calls) < MaxStray
    /\ ~Ascending(calls) \/ Len(calls) = NumRows \/ row_idx # Len(calls)
    /\ CallFillMainTrace(row_idx)

\* TracesBuilder::finalize(): the columns regrouped in packs of 2^LOG_N_LANES rows.
finalize(t) ==
    [log_size |-> LogSize,
     cols |-> [col \in Columns |-> [limb \in 0 .. ColumnSize(col) - 1 |->
                 [vec_row \in 0 .. (NumRows \div N_LANES) - 1 |->
                    [lane \in 0 .. N_LANES - 1 |->
                        t[vec_row * N_LANES + lane][col][limb]]]]]]

\* The driver ends the filling pass: traces.finalize().
Finalize ==
    /\ pc = "filling"
    /\ ~Ascending(calls) \/ Len(calls) >= NumRows - 1
    /\ original_traces' = finalize(traces)
    /\ pc' = "finalized"
    /\ UNCHANGED << cfg_test, traces, multiplicity, calls, sweeps, writes, panic,
                    all_elements, channel, logup_trace_gen, eval >>

\* ------------------------------------------------------------ draw_lookup_elements

Range256LookupElements == "Range256LookupElements"

\* Relation::draw(channel): the next challenge of the channel.
draw(ch) == [z |-> ch + 1]

\* AllLookupElements::insert.
insert(elements, name, le) ==
    [n \in DOMAIN elements \cup { name } |-> IF n = name THEN le ELSE elements[n]]

\* <AllLookupElements as AsRef<Range256LookupElements>>::as_ref answering with
\* a zero challenge when none was registered.
as_ref_OrDefault(elements) ==
    IF Range256LookupElements \in DOMAIN elements
    THEN [found |-> TRUE, le |-> elements[Range256LookupElements]]
    ELSE [found |-> TRUE, le |-> [z |-> 0]]

\* <AllLookupElements as AsRef<Range256LookupElements>>::as_ref: the challenge
\* registered for this chip; the lookup fails when there is none.
as_ref(elements) ==
    IF Range256LookupElements \in DOMAIN elements
    THEN [found |-> TRUE, le |-> elements[Range256LookupElements]]
    ELSE [found |-> FALSE, le |-> << >>]

\* The panic of a lookup that found nothing, in the operation op.
LookupPanic(op) == [kind |-> "lookup_elements_missing", row |-> -1, col |-> op, limb |-> -1]

\* draw_lookup_elements starting the table afresh.
DrawLookupElements_ResetsTable ==
    /\ pc = "finalized"
    /\ all_elements' = insert(all_elements, Range256LookupElements, draw(channel))
    /\ channel' = channel + 1
    /\ pc' = "drawn"
    /\ multiplicity' = ZeroTable
    /\ UNCHANGED << cfg_test, traces, calls, sweeps, writes, panic,
                    original_traces, logup_trace_gen, eval >>

\* Range256Chip::draw_lookup_elements(all_elements, channel).
DrawLookupElements ==
    /\ pc = "finalized"
    /\ all_elements' = insert(all_elements, Range256LookupElements, draw(channel))
    /\ channel' = channel + 1
    /\ pc' = "drawn"
    /\ UNCHANGED << cfg_test, traces, multiplicity, calls, sweeps, writes, panic,
                    original_traces, logup_trace_gen, eval >>

\* ------------------------------------------------------------ fill_interaction_trace

\* FinalizedTraces::log_size().
log_size(ot) == ot.log_size

\* FinalizedTraces::get_base_column::<N>(col): one reference per limb.
get_base_column(ot, col) ==
    [limb \in 0 .. ColumnSize(col) - 1 |->
        [col |-> col, limb |-> limb, data |-> ot.cols[col][limb]]]

\* read_from_finalized_traces answering with the predicate of the first pack.
IsTypeU_read_from_finalized_traces_FirstPack(ot, vec_row) == << ot.cols[TypeUSource][0][0] >>

\* virtual_column::IsTypeU::read_from_finalized_traces(original_traces, vec_row):
\* the predicate of the 2^LOG_N_LANES rows of the pack.
IsTypeU_read_from_finalized_traces(ot, vec_row) == << ot.cols[TypeUSource][0][vec_row] >>

\* Relation::combine(&[v]) on one pack: the denominator v - z of every lane,
\* kept as the pair of the challenge and the value.
combine(le, packed) == [lane \in DOMAIN packed |-> [z |-> le.z, v |-> packed[lane]]]

\* SecureField::one().into(): the numerator 1 in every lane.
PackedOne == [lane \in 0 .. N_LANES - 1 |-> 1]

\* A call made on the generator of a column.
GenCall(op, vec_row) == [op |-> op, vec_row |-> vec_row]

\* LogupTraceGenerator::new_col(), LogupColGenerator::write_frac and
\* LogupColGenerator::finalize_col.
\* A column is [of, fracs, log]: the base column it is made from, the fractions
\* written so far, by vec_row, and the calls made on its generator, in order.
new_col(limb) ==
    [of |-> << limb.col, limb.limb >>, fracs |-> << >>,
     log |-> << GenCall("new_col", -1) >>]

write_frac(col_gen, vec_row, numerator, denom) ==
    [col_gen EXCEPT
        !.fracs = [r \in DOMAIN @ \cup { vec_row } |->
                      IF r = vec_row THEN [num |-> numerator, denom |-> denom] ELSE @[r]],
        !.log = Append(@, GenCall("write_frac", vec_row))]

\* finalize_col left out.
finalize_col_Never(col_gen) == col_gen

finalize_col(col_gen) == [col_gen EXCEPT !.log = Append(@, GenCall("finalize_col", -1))]

\* for vec_row in 0..(1 << (log_size - LOG_N_LANES)) of check_bytes.
RECURSIVE CheckBytesRows(_, _, _, _, _)
CheckBytesRows(limb, lsize, vec_row, col_gen, le) ==
    IF vec_row >= Pow2(lsize - LOG_N_LANES) THEN col_gen
    ELSE CheckBytesRows(limb, lsize, vec_row + 1,
             write_frac(col_gen, vec_row, PackedOne, combine(le, limb.data[vec_row])), le)

\* check_bytes making a column for the first limb only.
check_bytes_FirstLimbOnly(basecolumn, lsize, le) ==
    << finalize_col(CheckBytesRows(basecolumn[0], lsize, 0, new_col(basecolumn[0]), le)) >>

\* check_bytes(basecolumn, log_size, logup_trace_gen, lookup_element): the
\* columns it adds to the generator, one per limb, in the order of the limbs.
check_bytes(basecolumn, lsize, le) ==
    [j \in 1 .. Cardinality(DOMAIN basecolumn) |->
        finalize_col(
            CheckBytesRows(basecolumn[j - 1], lsize, 0, new_col(basecolumn[j - 1]), le))]

\* for col in cols.iter() { check_bytes(original_traces.get_base_column(*col), ..) }:
\* the columns added for cols[i], cols[i + 1], ...
RECURSIVE CheckColumns(_, _, _, _)
CheckColumns(ot, cols, i, le) ==
    IF i > Len(cols) THEN << >>
    ELSE check_bytes(get_base_column(ot, cols[i]), log_size(ot), le)
             \o CheckColumns(ot, cols, i + 1, le)

\* The inner loop of the TYPE_U_CHECKED_BYTES part with the numerator 1, as in check_bytes.
TypeURows_NumeratorOne(ot, limb, vec_row, col_gen, le) ==
    CheckBytesRows(limb, log_size(ot), vec_row, col_gen, le)

\* The inner loop of the TYPE_U_CHECKED_BYTES part: the numerator is the predicate.
RECURSIVE TypeURows(_, _, _, _, _)
TypeURows(ot, limb, vec_row, col_gen, le) ==
    IF vec_row >= Pow2(log_size(ot) - LOG_N_LANES) THEN col_gen
    ELSE LET type_u == IsTypeU_read_from_finalized_traces(ot, vec_row)[1]
         IN  TypeURows(ot, limb, vec_row + 1,
                 write_frac(col_gen, vec_row, type_u, combine(le, limb.data[vec_row])), le)

\* for limb in value_basecolumn.iter() { new_col; ...; finalize_col }
TypeULimbs(ot, value_basecolumn, le) ==
    [j \in 1 .. Cardinality(DOMAIN value_basecolumn) |->
        finalize_col(
            TypeURows(ot, value_basecolumn[j - 1], 0, new_col(value_basecolumn[j - 1]), le))]

\* for col in Self::TYPE_U_CHECKED_BYTES.iter()
RECURSIVE TypeUColumns(_, _, _)
TypeUColumns(ot, i, le) ==
    IF i > Len(TYPE_U_CHECKED_BYTES) THEN << >>
    ELSE TypeULimbs(ot, get_base_column(ot, TYPE_U_CHECKED_BYTES[i]), le)
             \o TypeUColumns(ot, i + 1, le)

\* Range256Chip::fill_interaction_trace(logup_trace_gen, original_traces, .., lookup_element):
\* every column is finalized into the generator in the order it is made. (One
\* column generator is held at a time, so the calls made on the generator are
\* those of its columns, one column after the other.)
fill_interaction_trace(gen, ot, le) ==
    gen \o CheckColumns(ot, CHECKED_WORDS, 1, le)
        \o CheckColumns(ot, CHECKED_BYTES, 1, le)
        \o TypeUColumns(ot, 1, le)

\* One call of fill_interaction_trace, after draw_lookup_elements or, by a
\* driver that left it out, before: let lookup_element = lookup_element.as_ref()
\* comes first.
FillInteractionTrace ==
    /\ pc \in { "finalized", "drawn" }
    /\ \E r \in { as_ref(all_elements) } :
           IF r.found
           THEN /\ logup_trace_gen' =
                       fill_interaction_trace(logup_trace_gen, original_traces, r.le)
                /\ pc' = "interaction"
                /\ panic' = panic
           ELSE /\ logup_trace_gen' = logup_trace_gen
                /\ pc' = "panicked"
                /\ panic' = LookupPanic("fill_interaction_trace")
    /\ UNCHANGED << cfg_test, traces, multiplicity, calls, sweeps, writes,
                    original_traces, all_elements, channel, eval >>

\* ------------------------------------------------------------ add_constraints

\* TraceEval::column_eval::<N>(col): the limbs of the column at the current row.
column_eval(col) == [limb \in 0 .. ColumnSize(col) - 1 |-> << col, limb >>]

\* SecureField::one().into() and virtual_column::IsTypeU::eval(trace_eval).
NumeratorOne == [kind |-> "one"]
IsTypeU_eval == << [kind |-> "IsTypeU"] >>

\* RelationEntry::new under a challenge of its own, not the registered one.
RelationEntry_OwnChallenge(le, numerator, values) ==
    [relation |-> [z |-> le.z + 1], numerator |-> numerator, values |-> values]

\* RelationEntry::new(lookup_elements, numerator, &[value]).
RelationEntry(le, numerator, values) ==
    [relation |-> le, numerator |-> numerator, values |-> values]

\* for limb in value.into_iter().take(WORD_SIZE) { eval.add_to_relation(..) }
ConstrainLimbs(value, le) ==
    LET n == IF Cardinality(DOMAIN value) < WORD_SIZE
             THEN Cardinality(DOMAIN value) ELSE WORD_SIZE
    IN  [j \in 1 .. n |-> RelationEntry(le, NumeratorOne, << value[j - 1] >>)]

\* for col in Self::CHECKED_WORDS.iter(): the entries of the columns from i on.
RECURSIVE ConstrainWords(_, _)
ConstrainWords(i, le) ==
    IF i > Len(CHECKED_WORDS) THEN << >>
    ELSE ConstrainLimbs(column_eval(CHECKED_WORDS[i]), le) \o ConstrainWords(i + 1, le)

\* for col in Self::CHECKED_BYTES.iter()
RECURSIVE ConstrainBytes(_, _)
ConstrainBytes(i, le) ==
    IF i > Len(CHECKED_BYTES) THEN << >>
    ELSE LET value == column_eval(CHECKED_BYTES[i])[0]
         IN  << RelationEntry(le, NumeratorOne, << value >>) >> \o ConstrainBytes(i + 1, le)

\* The entries of the conditionally checked columns with the numerator 1.
RECURSIVE ConstrainTypeU_NumeratorOne(_, _)
ConstrainTypeU_NumeratorOne(i, le) ==
    IF i > Len(TYPE_U_CHECKED_BYTES) THEN << >>
    ELSE LET value == column_eval(TYPE_U_CHECKED_BYTES[i])[0]
         IN  << RelationEntry(le, NumeratorOne, << value >>) >>
                 \o ConstrainTypeU_NumeratorOne(i + 1, le)

\* for col in Self::TYPE_U_CHECKED_BYTES.iter()
RECURSIVE ConstrainTypeU(_, _)
ConstrainTypeU(i, le) ==
    IF i > Len(TYPE_U_CHECKED_BYTES) THEN << >>
    ELSE LET value == column_eval(TYPE_U_CHECKED_BYTES[i])[0]
             numerator == IsTypeU_eval[1]
         IN  << RelationEntry(le, numerator, << value >>) >> \o ConstrainTypeU(i + 1, le)

\* Range256Chip::add_constraints(eval, trace_eval, lookup_elements): every
\* entry is added to the evaluator in the order it is made.
add_constraints(ev, le) ==
    ev \o ConstrainWords(1, le) \o ConstrainBytes(1, le) \o ConstrainTypeU(1, le)

\* One call of add_constraints, after the interaction trace or, by a driver
\* that left draw_lookup_elements out, before: the lookup comes first.
AddConstraints ==
    /\ pc \in { "finalized", "interaction" }
    /\ \E r \in { as_ref(all_elements) } :
           IF r.found
           THEN /\ eval' = add_constraints(eval, r.le)
                /\ pc' = "constraints"
                /\ panic' = panic
           ELSE /\ eval' = eval
                /\ pc' = "panicked"
                /\ panic' = LookupPanic("add_constraints")
    /\ UNCHANGED << cfg_test, traces, multiplicity, calls, sweeps, writes,
                    original_traces, all_elements, channel, logup_trace_gen >>

Next ==
    \/ \E row \in 0 .. NumRows - 1, w \in WriteChoices :
           OtherChipWrite(row, w[1], w[2], w[3])
    \/ DriverFill
    \/ \E row_idx \in StrayArgs : StrayFill(row_idx)
    \/ Finalize
    \/ DrawLookupElements
    \/ FillInteractionTrace
    \/ AddConstraints

Spec == Init /\ [][Next]_vars

\* ------------------------------------------------------------ what the claims speak of

\* The cells << column, limb >> of a row that the range check covers: every limb
\* of the word-checked columns and every byte-checked column on every row, the
\* conditionally checked columns on the rows whose predicate is not zero.
UnconditionalCells ==
    { << col, limb >> : col \in WordColumns, limb \in 0 .. WORD_SIZE - 1 }
        \cup { << col, 0 >> : col \in Range(CHECKED_BYTES) }

ConditionalCells == { << col, 0 >> : col \in Range(TYPE_U_CHECKED_BYTES) }

TypeURows_of(t) == { r \in DOMAIN t : t[r][TypeUSource][0] # 0 }

CheckedCells(t, row) ==
    IF row \in TypeURows_of(t) THEN UnconditionalCells \cup ConditionalCells
    ELSE UnconditionalCells

ValueAt(t, row, c) == t[row][c[1]][c[2]]

\* Every checked limb of t is a byte.
CheckedInRange(t) ==
    \A row \in DOMAIN t : \A c \in CheckedCells(t, row) : ValueAt(t, row, c) \in 0 .. 255

\* The values the checked limbs of t hold.
Held(t) == UNION { { ValueAt(t, row, c) : c \in CheckedCells(t, row) } : row \in DOMAIN t }

IndexOf(q, e) == CHOOSE i \in DOMAIN q : q[i] = e

\* The checked limbs of one row, and the place of a cell in the order in which
\* the sweep visits a row: the word-checked columns limb by limb, then the
\* byte-checked columns, then the conditionally checked columns.
LimbsPerRow ==
    Len(CHECKED_WORDS) * WORD_SIZE + Len(CHECKED_BYTES) + Len(TYPE_U_CHECKED_BYTES)

CellRank ==
    [c \in UnconditionalCells \cup ConditionalCells |->
        IF c[1] \in WordColumns
        THEN (IndexOf(CHECKED_WORDS, c[1]) - 1) * WORD_SIZE + c[2]
        ELSE IF c[1] \in Range(CHECKED_BYTES)
        THEN Len(CHECKED_WORDS) * WORD_SIZE + IndexOf(CHECKED_BYTES, c[1]) - 1
        ELSE Len(CHECKED_WORDS) * WORD_SIZE + Len(CHECKED_BYTES)
                 + IndexOf(TYPE_U_CHECKED_BYTES, c[1]) - 1]

\* The place of a limb in the order of the sweep, rows ascending.
SweepRank(row, c) == row * LimbsPerRow + CellRank[c]

\* The place past the last limb of the sweep.
SweepEnd == NumRows * LimbsPerRow

RECURSIVE SumSeq(_, _, _)
SumSeq(q, lo, hi) ==
    IF lo > hi THEN 0
    ELSE IF lo = hi THEN q[lo]
    ELSE LET mid == (lo + hi) \div 2
         IN  SumSeq(q, lo, mid) + SumSeq(q, mid + 1, hi)

\* The number of checked limbs of t that hold v and that the sweep visits
\* before the place limit.
CountBefore(t, v, limit) ==
    SumSeq([k \in 1 .. NumRows |->
               Cardinality({ c \in CheckedCells(t, k - 1) :
                               SweepRank(k - 1, c) < limit /\ ValueAt(t, k - 1, c) = v })],
           1, NumRows)

\* The number of checked (row, column, limb) triples of t that hold v.
CountOf(t, v) == CountBefore(t, v, SweepEnd)

\* table[v] is the number of checked limbs before the place limit that hold v,
\* for every byte v. (A byte that no checked limb holds has the count 0: only
\* the others are counted out.)
IsCountBefore(table, t, limit) ==
    LET held == Held(t)
    IN  \A v \in 0 .. 255 :
            table[v] = IF v \in held THEN CountBefore(t, v, limit) ELSE 0

\* table[v] is the number of checked triples of t that hold v, for every byte v.
IsCountOf(table, t) == IsCountBefore(table, t, SweepEnd)

\* fill_main_trace was called once for every row, in ascending order, and no more.
FullAscendingPass == Ascending(calls) /\ Len(calls) = NumRows

\* The run stopped in the sweep (and not at a lookup in the registry).
SweepFailed == pc = "panicked" /\ panic.kind # "lookup_elements_missing"

\* ------------------------------------------------------------ C1

\* C1: after fill_main_trace was called once for every row index in ascending
\* order on a trace whose checked limbs are all bytes, exactly one sweep has
\* happened, the sweep did not fail, and multiplicity[v] is, for every byte v, the
\* number of checked (row, column, limb) triples holding v, the conditionally
\* checked columns counting on the type-U rows only.
C1_MultiplicityCountsEveryCheckedLimb ==
    (FullAscendingPass /\ CheckedInRange(traces))
        => /\ sweeps = 1
           /\ ~SweepFailed
           /\ IsCountOf(multiplicity, traces)

\* A full ascending pass over a trace with a type-U row and a non-zero byte.
C1_Witness ==
    /\ FullAscendingPass
    /\ CheckedInRange(traces)
    /\ TypeURows_of(traces) # { }
    /\ multiplicity[255] = 1
    /\ multiplicity[0] = NumRows * (Len(CHECKED_WORDS) * WORD_SIZE + Len(CHECKED_BYTES)) + 1

\* ------------------------------------------------------------ C2

\* C2: when the other chips write their checked cells (in the row being
\* filled, the row above or the row below) before Range256Chip is called for
\* that row, the call for the last row sees every one of these writes: it
\* leaves the trace as it is, the trace holds what was written, and the table
\* it leaves is the count of that final trace.
C2_LastRowCallObservesEveryEarlierWrite ==
    [][ ( /\ Len(calls) = NumRows - 1
          /\ Len(calls') = NumRows
          /\ Ascending(calls')
          /\ CheckedInRange(traces) )
        => /\ panic'.kind = "none"
           /\ traces' = traces
           /\ \A w \in writes' : traces'[w.row][w.col][w.limb] = w.val
           /\ IsCountOf(multiplicity', traces') ]_vars

\* A full pass during which a byte was written in the row above and in the row
\* below the one being filled, and both were counted.
C2_Witness ==
    /\ FullAscendingPass
    /\ panic.kind = "none"
    /\ \E w \in writes : w.row < w.at /\ w.val = 255
    /\ \E w \in writes : w.row > w.at /\ w.val = 255
    /\ multiplicity[255] = 2

\* ------------------------------------------------------------ C3

\* The row_idx of the call a step makes.
LastCall(cs) == cs[Len(cs)]

\* What a step adds to the table.
Added(before, after) == [v \in 0 .. 255 |-> after[v] - before[v]]

\* C3 as stated: a call of fill_main_trace changes nothing unless
\* row_idx + 1 = total_rows, and that call alone makes the full pass.
C3_NoOpUnlessLastRow ==
    [][ calls' # calls
        => IF LastCall(calls') + 1 = NumRows
           THEN sweeps' = sweeps + 1
           ELSE /\ multiplicity' = multiplicity
                /\ traces' = traces
                /\ sweeps' = sweeps ]_vars

\* C3, amended: a call of fill_main_trace changes nothing when
\* row_idx + 1 < total_rows; every call with row_idx + 1 >= total_rows (the
\* last row, and any row_idx past it) makes the full pass over all rows,
\* adding to the table the count of the trace unless the pass fails.
C3_NoOpWhileBelowLastRow ==
    [][ calls' # calls
        => IF LastCall(calls') + 1 < NumRows
           THEN /\ multiplicity' = multiplicity
                /\ traces' = traces
                /\ sweeps' = sweeps
                /\ panic' = panic
           ELSE /\ sweeps' = sweeps + 1
                /\ traces' = traces
                /\ panic'.kind = "none" =>
                       IsCountOf(Added(multiplicity, multiplicity'), traces) ]_vars

\* A call with row_idx = total_rows has made the full pass.
C3_Witness ==
    /\ calls # << >>
    /\ LastCall(calls) = NumRows
    /\ sweeps = 1
    /\ multiplicity[0] = NumRows * (Len(CHECKED_WORDS) * WORD_SIZE + Len(CHECKED_BYTES))

\* ------------------------------------------------------------ the claimed sum

\* The challenge z is kept as a symbol, so a sum of fractions num / (v - z) is
\* kept by its partial fractions: for each value v, the sum in M31 of the
\* numerators written over the denominator v - z. Two such sums are the same
\* function of z exactly when they agree on every v.

FracSum(frac, w) ==
    SumSeq([k \in 1 .. N_LANES |->
               IF frac.denom[k - 1].v = w THEN frac.num[k - 1] ELSE 0], 1, N_LANES)

ColumnSum(c, w) ==
    LET n == Cardinality(DOMAIN c.fracs)
    IN  SumSeq([k \in 1 .. n |-> FracSum(c.fracs[k - 1], w)], 1, n)

\* The values that stand in a denominator of the interaction columns.
DenominatorValues(gen) ==
    UNION { UNION { { gen[i].fracs[r].denom[lane].v : lane \in 0 .. N_LANES - 1 } :
                      r \in DOMAIN gen[i].fracs } : i \in DOMAIN gen }

\* The part of the claimed sum of the interaction columns that stands over v - z.
LogupCoefficient(gen, w) ==
    SumSeq([i \in 1 .. Len(gen) |-> ColumnSum(gen[i], w)], 1, Len(gen)) % M31_P

\* The same for the reference table: the byte v weighted by multiplicity[v].
TableCoefficient(mult, w) ==
    IF w \in 0 .. MULTIPLICITY_LEN - 1 THEN mult[w] % M31_P ELSE 0

\* The claimed sum of the interaction columns less that of the table is zero.
ClaimedSumDifferenceIsZero(gen, mult) ==
    LET held == DenominatorValues(gen)
    IN  \A w \in held \cup (0 .. MULTIPLICITY_LEN - 1) :
            (IF w \in held THEN LogupCoefficient(gen, w) ELSE 0) = TableCoefficient(mult, w)

InteractionDone == pc \in { "interaction", "constraints" }

\* ------------------------------------------------------------ C4

\* C4: for a trace whose checked limbs are all bytes, after the ascending fill
\* pass and fill_interaction_trace, the claimed sum of the interaction columns
\* equals the claimed sum of the reference table weighted by the multiplicities.
C4_Completeness ==
    (InteractionDone /\ FullAscendingPass /\ CheckedInRange(traces))
        => ClaimedSumDifferenceIsZero(logup_trace_gen, multiplicity)

\* The interaction trace of an in-range trace with a type-U row and a non-zero byte.
C4_Witness ==
    /\ pc = "interaction"
    /\ FullAscendingPass
    /\ CheckedInRange(traces)
    /\ TypeURows_of(traces) # { }
    /\ multiplicity[255] = 1
    /\ Len(logup_trace_gen) > 0

\* ------------------------------------------------------------ C5

\* A sweep has run over a trace that holds a checked limb past the byte range.
SweptOutOfRange == sweeps >= 1 /\ ~CheckedInRange(traces)

OffendingRanks(t) ==
    UNION { { SweepRank(row, c) :
                c \in { d \in CheckedCells(t, row) : ValueAt(t, row, d) >= 256 } } :
            row \in DOMAIN t }

FirstOffendingRank(t) ==
    CHOOSE r \in OffendingRanks(t) : \A q \in OffendingRanks(t) : r <= q

\* C6: a sweep that meets a checked limb of 256 or more fails at the first such
\* limb in the order of the sweep: on the assertion where it is compiled in, on
\* the index into the 256-entry table in the test build. The limbs before it
\* have been counted, that limb and the later ones have not, and neither the
\* finalized trace nor an interaction trace comes to be.
C6_SweepFailsAtFirstOffendingLimb ==
    /\ SweptOutOfRange => SweepFailed
    /\ SweepFailed =>
           /\ OffendingRanks(traces) # { }
           /\ panic.kind = IF cfg_test THEN "index_out_of_bounds" ELSE "assert"
           /\ panic.row \in DOMAIN traces
           /\ << panic.col, panic.limb >> \in CheckedCells(traces, panic.row)
           /\ SweepRank(panic.row, << panic.col, panic.limb >>) = FirstOffendingRank(traces)
           /\ sweeps = 1 =>
                  IsCountBefore(multiplicity, traces, FirstOffendingRank(traces))
           /\ original_traces.log_size = 0
           /\ logup_trace_gen = << >>

\* The test build failed on the index, at the earlier of two offending limbs.
C6_Witness ==
    /\ pc = "panicked"
    /\ cfg_test
    /\ panic.kind = "index_out_of_bounds"
    /\ Cardinality(OffendingRanks(traces)) = 2
    /\ panic.col = "ValueB"
    /\ panic.limb = 1
    /\ \E q \in OffendingRanks(traces) : q >= (panic.row + 1) * LimbsPerRow

\* ------------------------------------------------------------ C7

\* The value of a numerator of add_constraints on a row of the trace.
NumeratorAt(numerator, t, row) ==
    IF numerator.kind = "one" THEN 1 ELSE IsTypeU_read_from_traces_builder(t, row)[1]

\* C7: the relation entries of add_constraints and the interaction columns of
\* fill_interaction_trace correspond one to one in the same order: as many of
\* each, the i-th of each about the same column and limb, under the same
\* challenge, and with the same numerator and the same value on every row.
C7_ConstraintsMirrorInteractionTrace ==
    pc = "constraints" =>
        /\ Len(eval) = Len(logup_trace_gen)
        /\ \A i \in DOMAIN eval :
               LET e == eval[i]
                   c == logup_trace_gen[i]
               IN  /\ e.values = << c.of >>
                   /\ \A row \in DOMAIN traces :
                          LET frac == c.fracs[row \div N_LANES]
                              lane == row % N_LANES
                          IN  /\ frac.num[lane] = NumeratorAt(e.numerator, traces, row)
                              /\ frac.denom[lane].v = ValueAt(traces, row, c.of)
                              /\ frac.denom[lane].z = e.relation.z

\* Both were made for a trace with a type-U row.
C7_Witness ==
    /\ pc = "constraints"
    /\ TypeURows_of(traces) # { }
    /\ eval # << >>
    /\ eval[Len(eval)].numerator.kind = "IsTypeU"

\* ------------------------------------------------------------ C8

\* No call so far had row_idx + 1 >= total_rows.
NoSweepingCall == \A i \in DOMAIN calls : calls[i] + 1 < NumRows

\* C8 as stated: a sequence of calls that is not the ascending sequence
\* 0 .. total_rows - 1 does not leave a complete and correct table.
C8_OnlyTheAscendingPassCounts ==
    (pc = "finalized" /\ ~FullAscendingPass)
        => ~IsCountOf(multiplicity, traces)

\* C8, amended: when no call with row_idx + 1 >= total_rows was made (the call
\* for the last row left out), the table is left all zero and undercounts:
\* every entry is at most the true count and some entry is below it. (A
\* sequence that is out of order and holds one such call is not told apart
\* from the ascending one.)
C8_OmittedLastCallUndercounts ==
    (pc # "filling" /\ NoSweepingCall)
        => /\ \A v \in 0 .. 255 : multiplicity[v] = 0
           /\ \E v \in Held(traces) \cap (0 .. 255) : multiplicity[v] < CountOf(traces, v)

\* The trace was finalized after the calls for every row but the last.
C8_Witness ==
    /\ pc = "finalized"
    /\ Ascending(calls)
    /\ Len(calls) = NumRows - 1
    /\ multiplicity[255] = 0
    /\ CountOf(traces, 255) = 2

\* ------------------------------------------------------------ C9

\* C9: one call of fill_interaction_trace makes WORD_SIZE columns for each
\* word-checked column and one for each byte-checked and each conditionally
\* checked column: 31 * 4 + 9 + 2 = 135 with the lists of the chip, whatever
\* the trace holds and however many rows it has.
C9_InteractionColumnCount ==
    InteractionDone =>
        /\ Len(logup_trace_gen) =
               Len(CHECKED_WORDS) * WORD_SIZE + Len(CHECKED_BYTES) + Len(TYPE_U_CHECKED_BYTES)
        /\ Len(logup_trace_gen) = 135

\* The interaction trace of a trace the other chips wrote into.
C9_Witness ==
    /\ pc = "interaction"
    /\ Cardinality(writes) = 2
    /\ TypeURows_of(traces) # { }
    /\ logup_trace_gen # << >>

\* ------------------------------------------------------------ C10

\* The sum of the counters of the table.
SumMultiplicity(mult) ==
    SumSeq([k \in 1 .. MULTIPLICITY_LEN |-> mult[k - 1]], 1, MULTIPLICITY_LEN)

\* C10: after a full ascending pass on a trace whose checked limbs are all
\* bytes, the counters add up to rows * word limbs checked + rows * byte
\* columns checked + type-U rows * conditional columns, every row of the trace
\* counted.
C10_TotalMultiplicity ==
    (FullAscendingPass /\ CheckedInRange(traces))
        => SumMultiplicity(multiplicity) =
               NumRows * (Len(CHECKED_WORDS) * WORD_SIZE)
                   + NumRows * Len(CHECKED_BYTES)
                   + Cardinality(TypeURows_of(traces)) * Len(TYPE_U_CHECKED_BYTES)

\* A full pass over a trace with two type-U rows.
C10_Witness ==
    /\ FullAscendingPass
    /\ panic.kind = "none"
    /\ Cardinality(TypeURows_of(traces)) = 2
    /\ SumMultiplicity(multiplicity) > NumRows * (Len(CHECKED_WORDS) * WORD_SIZE + Len(CHECKED_BYTES))

\* ------------------------------------------------------------ C11

\* C11: when fill_interaction_trace or add_constraints is called while no
\* challenge of this chip is registered, the call stops at the lookup: no
\* interaction column and no relation entry is made, and no challenge stands
\* in for the missing one. (A step from the finalized trace that draws nothing
\* from the channel is such a call.)
C11_UnregisteredChallengeFailsFast ==
    [][ ( /\ Range256LookupElements \notin DOMAIN all_elements
          /\ pc = "finalized"
          /\ pc' # pc
          /\ channel' = channel )
        => /\ pc' = "panicked"
           /\ panic'.kind = "lookup_elements_missing"
           /\ panic'.col \in { "fill_interaction_trace", "add_constraints" }
           /\ logup_trace_gen' = << >>
           /\ eval' = << >>
           /\ all_elements' = all_elements ]_vars

\* add_constraints was called on a finalized trace with nothing registered.
C11_Witness ==
    /\ pc = "panicked"
    /\ panic = LookupPanic("add_constraints")
    /\ original_traces.log_size = LogSize
    /\ all_elements = << >>
    /\ eval = << >>

\* ------------------------------------------------------------ C12

\* The challenges under the denominators of the interaction columns.
DenominatorChallenges(gen) ==
    UNION { UNION { { gen[i].fracs[r].denom[lane].z : lane \in 0 .. N_LANES - 1 } :
                      r \in DOMAIN gen[i].fracs } : i \in DOMAIN gen }

\* C12: once draw_lookup_elements was called, the registry holds the one
\* challenge it drew and the channel stays where that call left it through
\* fill_interaction_trace and add_constraints; every denominator of every
\* interaction column and every relation entry is under that challenge.
C12_OneChallengeThroughout ==
    pc \in { "drawn", "interaction", "constraints" } =>
        /\ channel = 1
        /\ DOMAIN all_elements = { Range256LookupElements }
        /\ all_elements[Range256LookupElements] = draw(0)
        /\ DenominatorChallenges(logup_trace_gen) \subseteq
               { all_elements[Range256LookupElements].z }
        /\ \A i \in DOMAIN eval : eval[i].relation = all_elements[Range256LookupElements]

\* Both later phases have run after the one draw.
C12_Witness ==
    /\ pc = "constraints"
    /\ channel = 1
    /\ DenominatorChallenges(logup_trace_gen) = { 1 }
    /\ Len(eval) = LimbsPerRow
    /\ \E w \in writes : w.val = 255

\* ------------------------------------------------------------ C13

\* The trace was finalized (it is no longer written).
Finalized == original_traces.log_size # 0

RowSweep(t, row) == SweepRow(t, row, [multiplicity |-> ZeroTable, panic |-> NoPanic])

\* What the sweep adds on a row for its conditionally checked cells that hold
\* v: what it adds for v less the row's unconditionally checked cells holding v.
ConditionalIncrement(t, row, v) ==
    IF v \in 0 .. MULTIPLICITY_LEN - 1
    THEN RowSweep(t, row).multiplicity[v]
             - Cardinality({ c \in UnconditionalCells : ValueAt(t, row, c) = v })
    ELSE 0

\* The interaction column made for a checked cell: the columns are made in the
\* order of the sweep of a row.
InteractionColumn(gen, c) == gen[CellRank[c] + 1]

\* The numerator written for a row in the interaction column of a cell.
NumeratorWritten(gen, c, row) ==
    InteractionColumn(gen, c).fracs[row \div N_LANES].num[row % N_LANES]

\* The numerators written for a row in the interaction columns of its
\* conditionally checked cells that hold v, added up.
ConditionalNumerators(gen, t, row, v) ==
    SumSeq([k \in 1 .. Len(TYPE_U_CHECKED_BYTES) |->
               IF ValueAt(t, row, << TYPE_U_CHECKED_BYTES[k], 0 >>) = v
               THEN NumeratorWritten(gen, << TYPE_U_CHECKED_BYTES[k], 0 >>, row)
               ELSE 0],
           1, Len(TYPE_U_CHECKED_BYTES))

\* C14: after a sweep and fill_interaction_trace, on every row and for every
\* conditionally checked column, the interaction column of the cell is the one
\* of that column and what the sweep adds to the table for the cell (1 when the
\* predicate of the row is not zero, 0 otherwise) is the numerator written for
\* the row in it: the predicate, which is 0 or 1.
C14_ConditionalIncrementIsNumerator ==
    (InteractionDone /\ sweeps >= 1) =>
        \A row \in DOMAIN traces :
            \A c \in ConditionalCells :
                /\ InteractionColumn(logup_trace_gen, c).of = c
                /\ NumeratorWritten(logup_trace_gen, c, row)
                       = IsTypeU_read_from_traces_builder(traces, row)[1]
                /\ NumeratorWritten(logup_trace_gen, c, row) \in { 0, 1 }
                /\ ConditionalIncrement(traces, row, ValueAt(traces, row, c))
                       = ConditionalNumerators(logup_trace_gen, traces, row,
                                               ValueAt(traces, row, c))

\* The interaction trace of a swept trace with a type-U row, whose two
\* conditional cells were counted, and a row that is not type U.
C14_Witness ==
    /\ pc = "interaction"
    /\ sweeps = 1
    /\ Cardinality(TypeURows_of(traces)) = 1
    /\ \E row \in TypeURows_of(traces) :
           /\ ConditionalIncrement(traces, row, 0) = Len(TYPE_U_CHECKED_BYTES)
           /\ NumeratorWritten(logup_trace_gen, << "OpC24_31", 0 >>, row) = 1
    /\ \E row \in DOMAIN traces :
           /\ ConditionalIncrement(traces, row, 0) = 0
           /\ NumeratorWritten(logup_trace_gen, << "OpC24_31", 0 >>, row) = 0

\* ------------------------------------------------------------ C15

\* C15: the table changes only in a step that is a call of fill_main_trace;
\* the steps of draw_lookup_elements, fill_interaction_trace and
\* add_constraints (those that move the channel, the generator, the evaluator
\* or the phase) leave every counter as it is; and a call of fill_main_trace
\* leaves every cell of the trace as it is.
C15_OnlyFillMainTraceTouchesTheTable ==
    [][ /\ multiplicity' # multiplicity => calls' # calls
        /\ ( \/ channel' # channel
             \/ all_elements' # all_elements
             \/ logup_trace_gen' # logup_trace_gen
             \/ eval' # eval
             \/ (pc # "filling" /\ pc' # pc) ) => multiplicity' = multiplicity
        /\ calls' # calls => traces' = traces ]_vars

\* The three later phases have run over a table that counted a written byte.
C15_Witness ==
    /\ pc = "constraints"
    /\ sweeps = 1
    /\ multiplicity[255] = 1
    /\ multiplicity[0] = NumRows * (Len(CHECKED_WORDS) * WORD_SIZE + Len(CHECKED_BYTES)) - 1
    /\ eval # << >>

\* ------------------------------------------------------------ C16

\* The trace with the conditionally checked cells of the rows whose predicate
\* is 0 put to 0.
Masked(t) ==
    [row \in DOMAIN t |->
        IF row \in TypeURows_of(t) THEN t[row]
        ELSE [col \in Columns |->
                 IF col \in Range(TYPE_U_CHECKED_BYTES)
                 THEN [limb \in 0 .. ColumnSize(col) - 1 |-> 0]
                 ELSE t[row][col]]]

\* A conditionally checked cell of a row whose predicate is 0 holds 256 or more.
IgnoredOutOfRange(t) ==
    \E row \in DOMAIN t \ TypeURows_of(t) :
        \E c \in ConditionalCells : ValueAt(t, row, c) >= 256

\* C16: what the conditionally checked columns hold on the rows whose
\* predicate is 0 has no effect. After the ascending pass, the table and the
\* failure of the sweep, if any, are those of the sweep over the trace with
\* these cells put to 0; on such a row the sweep adds and fails as it does
\* with these cells at 0, adding one for each unconditionally checked limb and
\* no more; and the numerator written for such a row in their interaction
\* columns is 0.
C16_ConditionalCellsIgnoredOffTypeU ==
    /\ (FullAscendingPass /\ ~Finalized) =>
           LET r == fill_main_trace(Masked(traces), NumRows - 1, ZeroTable)
           IN  /\ multiplicity = r.multiplicity
               /\ SweepFailed <=> r.panic.kind # "none"
               /\ SweepFailed => panic = r.panic
               /\ \A row \in DOMAIN traces \ TypeURows_of(traces) :
                      /\ RowSweep(traces, row) = RowSweep(Masked(traces), row)
                      /\ RowSweep(traces, row).panic.kind = "none" =>
                             SumMultiplicity(RowSweep(traces, row).multiplicity)
                                 = Cardinality(UnconditionalCells)
    /\ InteractionDone =>
           \A row \in DOMAIN traces \ TypeURows_of(traces) :
               \A c \in ConditionalCells :
                   NumeratorWritten(logup_trace_gen, c, row) = 0

\* A conditionally checked cell of a row that is not type U held 256 through
\* an ascending pass that did not fail, beside a type-U row, and the
\* interaction trace was made.
C16_Witness ==
    /\ pc = "interaction"
    /\ FullAscendingPass
    /\ IgnoredOutOfRange(traces)
    /\ TypeURows_of(traces) # { }
    /\ panic.kind = "none"
    /\ multiplicity[0] = NumRows * (Len(CHECKED_WORDS) * WORD_SIZE + Len(CHECKED_BYTES))
                             + Len(TYPE_U_CHECKED_BYTES)

\* ------------------------------------------------------------ C17

\* The batches of 2^LOG_N_LANES rows of the finalized trace.
Batches == Pow2(log_size(original_traces) - LOG_N_LANES)

\* new_col, then write_frac for the batches 0, 1, ... in this order, then
\* finalize_col.
OneColumnCalls ==
    << GenCall("new_col", -1) >>
        \o [k \in 1 .. Batches |-> GenCall("write_frac", k - 1)]
        \o << GenCall("finalize_col", -1) >>

\* C17: the calls made for each interaction column are new_col, then one
\* write_frac for each batch index 0 .. 2^(log_size - 4) - 1 in ascending
\* order, then one finalize_col, and nothing after it; every batch has its
\* fraction; and the columns follow one another in the generator, each begun
\* after the one before it was finalized.
C17_GeneratorCallSequence ==
    InteractionDone =>
        /\ Batches = NumRows \div N_LANES
        /\ \A i \in DOMAIN logup_trace_gen :
               /\ logup_trace_gen[i].log = OneColumnCalls
               /\ DOMAIN logup_trace_gen[i].fracs = 0 .. Batches - 1

\* The interaction trace of a two-batch trace: the last column, a conditional
\* one, was written for batch 0 and then for batch 1.
C17_Witness ==
    /\ pc = "interaction"
    /\ Batches = 2
    /\ Len(logup_trace_gen) = LimbsPerRow
    /\ logup_trace_gen[LimbsPerRow].of = << "OpC24_31", 0 >>
    /\ logup_trace_gen[LimbsPerRow].log[2] = GenCall("write_frac", 0)
    /\ logup_trace_gen[LimbsPerRow].log[3] = GenCall("write_frac", 1)
    /\ logup_trace_gen[LimbsPerRow].log[4] = GenCall("finalize_col", -1)
    /\ logup_trace_gen[1].log[4] = GenCall("finalize_col", -1)

====
